---- MODULE Spec2Model ----
(***************************************************************************)
(* Model of src/index.js: the pairing-code registry (generation, lookup,   *)
(* expiry timers, periodic sweep, capacity eviction) and the connection    *)
(* status mirror (initWhatsApp, the connection.update handler, reconnect   *)
(* timers).                                                                *)
(*                                                                         *)
(* Every JavaScript callback runs to completion, so one action is one      *)
(* callback, or the part of an async function between two awaits.          *)
(*                                                                         *)
(* Strings are sequences of one-character strings, so that substring,      *)
(* replace and toUpperCase are computed, not assumed.                      *)
(*                                                                         *)
(* Time is counted in ticks of the wall clock.  The registry's durations   *)
(* (CODE_EXPIRY_MINUTES, CLEANUP_INTERVAL, MAX_SESSIONS) are scaled down   *)
(* to a few ticks / entries; the reconnect delays are kept in milliseconds *)
(* as data of the timer and the timer fires at any later moment.           *)
(***************************************************************************)
EXTENDS Integers, Sequences, FiniteSets, TLC

\* ---------------------------------------------------------------- bounds
\* CONFIG.CODE_EXPIRY_MINUTES (10 minutes), in ticks.
CODE_EXPIRY_TICKS == 2
\* Half of CONFIG.MAX_SESSIONS: the records that fit under the cap (50).
SessionPairs == 1
\* Calls of generateNewPairingCode in one behaviour.
MaxIssues == 2
\* Last tick of the clock.
MaxTime == 4
\* The same where the connection is explored in full.
BriefIssues == 1
\* QR and close updates the sockets deliver in one behaviour.
MaxUpdates == 3
\* CONFIG.MAX_QR_ATTEMPTS (5), scaled: below MaxUpdates, so that QR payloads
\* arrive after the counter has reached it.
CONFIG_MAX_QR_ATTEMPTS == 2

\* ------------------------------------------------------------- constants
\* CONFIG.MAX_SESSIONS (100, an even number), scaled: the cap on the number
\* of Map entries, each record being entered under two keys.
MAX_SESSIONS == 2 * SessionPairs
\* One tick of the clock is CONFIG.CLEANUP_INTERVAL (60000 ms).
CLEANUP_INTERVAL_TICKS == 1
\* linkedAt: null, activeSocket = null, currentQR = null, ...
Null == -1
\* lastDisconnect?.error?.output?.statusCode when a link of the chain is missing
Undefined == 0

\* ---------------------------------------------------------------- strings
Digits == {"0", "1", "2", "3", "4", "5", "6", "7", "8", "9"}
Upper == <<"A", "B", "C", "D", "E", "F", "G", "H", "I", "J", "K", "L", "M",
           "N", "O", "P", "Q", "R", "S", "T", "U", "V", "W", "X", "Y", "Z">>
Lower == <<"a", "b", "c", "d", "e", "f", "g", "h", "i", "j", "k", "l", "m",
           "n", "o", "p", "q", "r", "s", "t", "u", "v", "w", "x", "y", "z">>
UpperSet == {Upper[i] : i \in 1..26}

\* String.prototype.toUpperCase, character by character
UpperOfLower == [c \in {Lower[i] : i \in 1..26} |-> Upper[CHOOSE i \in 1..26 : Lower[i] = c]]
ToUpperChar(c) == IF c \in DOMAIN UpperOfLower THEN UpperOfLower[c] ELSE c
ToUpperCase(s) == [i \in 1..Len(s) |-> ToUpperChar(s[i])]

\* s.replace(/-/g, '')
IsNotDash(c) == c # "-"
RemoveDashes(s) == SelectSeq(s, IsNotDash)

\* (s.match(/[A-Z]/g) || []).length and (s.match(/[0-9]/g) || []).length
CountIn(s, set) == Cardinality({i \in 1..Len(s) : s[i] \in set})

StartsWith(s, c) == Len(s) >= 1 /\ s[1] = c

\* -------------------------------------------------------- code generator
\* const chars = 'ABCDEFGHJKLMNPQRSTUVWXYZ23456789'
chars == <<"A", "B", "C", "D", "E", "F", "G", "H", "J", "K", "L", "M", "N",
           "P", "Q", "R", "S", "T", "U", "V", "W", "X", "Y", "Z",
           "2", "3", "4", "5", "6", "7", "8", "9">>

\* One run of the loop of generateAlphanumericCode draws eight indices
\* Math.floor(Math.random() * chars.length), each in 0..31.  The draws tried:
\* two that pass the class filter, one with letters only, one with a single
\* digit and one with a single letter.
Draws == { <<0, 1, 24, 25, 2, 3, 26, 27>>,
           <<7, 8, 30, 31, 9, 10, 24, 25>>,
           <<0, 1, 2, 3, 4, 5, 6, 7>>,
           <<11, 12, 13, 14, 31, 15, 16, 17>>,
           <<24, 25, 26, 23, 27, 28, 29, 30>> }

\* code += chars.charAt(index), eight times
CodeOfDraw(d) == [i \in 1..8 |-> chars[d[i] + 1]]

\* the test as it would be if only the letters were counted
TooFewLetters(code) ==
    CountIn(code, UpperSet) < 2

\* the test that makes generateAlphanumericCode call itself again
TooFewOfAClass(code) ==
    CountIn(code, UpperSet) < 2 \/ CountIn(code, Digits) < 2

\* generateAlphanumericCode, given the draws of the successive attempts
RECURSIVE generateAlphanumericCode(_)
generateAlphanumericCode(ds) ==
    LET code == CodeOfDraw(Head(ds))
    IN  IF TooFewOfAClass(code)
        THEN generateAlphanumericCode(Tail(ds))
        ELSE code

\* The sequences of draws of a terminating call: rejected draws, then an
\* accepted one (at most one retry is enumerated).
DrawSeqs ==
    { <<d>> : d \in {x \in Draws : ~TooFewOfAClass(CodeOfDraw(x))} }
    \cup { <<d, e>> : d \in {x \in Draws : TooFewOfAClass(CodeOfDraw(x))},
                      e \in {x \in Draws : ~TooFewOfAClass(CodeOfDraw(x))} }

\* the display form as it would be with a blank between the halves
formatDisplayCodeSpaced(code) ==
    IF Len(code) = 8
    THEN SubSeq(code, 1, 4) \o <<" ">> \o SubSeq(code, 5, Len(code))
    ELSE code

formatDisplayCode(code) ==
    IF Len(code) = 8
    THEN SubSeq(code, 1, 4) \o <<"-">> \o SubSeq(code, 5, Len(code))
    ELSE code

\* ------------------------------------------------------- phone normalizer
PlusSign == "+"
IsDigitOrPlus(c) == c \in Digits \/ c = PlusSign

\* The numbers the two external parsers accept (libphonenumber-js, phone):
\* the external collaborators are tables here.
LibPhoneNumberValid == { <<"+", "2", "5", "4", "7", "2", "3", "2", "7", "8", "5", "2", "6">> }
PhoneLibValid == {}

\* validateAndFormatPhoneNumber: [isValid, formatted]
validateAndFormatPhoneNumber(phoneNumber) ==
    LET stripped == SelectSeq(phoneNumber, IsDigitOrPlus)
        cleanNumber ==
            IF StartsWith(stripped, "0") /\ Len(stripped) >= 9
            THEN <<"+", "2", "5", "4">> \o SubSeq(stripped, 2, Len(stripped))
            ELSE IF ~StartsWith(stripped, PlusSign) /\ Len(stripped) >= 9
                 THEN <<PlusSign>> \o stripped
                 ELSE stripped
    IN  IF cleanNumber \in LibPhoneNumberValid
        THEN [isValid |-> TRUE, formatted |-> cleanNumber, source |-> "libphonenumber"]
        ELSE IF cleanNumber \in PhoneLibValid
             THEN [isValid |-> TRUE, formatted |-> cleanNumber, source |-> "phone"]
             ELSE [isValid |-> FALSE, formatted |-> <<>>, source |-> "none"]

\* The request bodies tried by POST /generate-code
PhoneInputs == { <<>>,
                 <<"a", "b", "c">>,
                 <<"7", "2", "3", "2", "7", "8", "5", "2", "6">>,
                 <<"0", "7", "2", "3", "2", "7", "8", "5", "2", "6">>,
                 <<"+", "2", "5", "4", " ", "7", "2", "3", "2", "7", "8", "5", "2", "6">> }

\* ------------------------------------------------------------------ state
VARIABLES
    now,                      \* the wall clock (Date.now()), in ticks
    nextSweep,                \* when setInterval(cleanupExpiredCodes) is due next
    pairingCodes,             \* the Map, as its entries in insertion order: [key, ref]
    heap,                     \* the codeData objects the Map's values refer to
    issued,                   \* objects created so far (the next object's reference)
    expiryTimers,             \* pending setTimeout callbacks of generateNewPairingCode; swept
                              \* records that the sweep removed the record of the callback
    lastGeneratedCode,
    lastGeneratedDisplayCode,
    botStatus,
    isConnecting,
    activeSocket,
    currentQR,
    qrImageDataUrl,
    autoActivationAttempts,
    connectionStartTime,
    initTimers,               \* pending setTimeout(() => initWhatsApp(), delay): a sequence of delays
    initsInFlight,            \* executions of initWhatsApp suspended at an await of its try block
    sockets,                  \* the sockets made so far: the state of each
    delivered,                \* QR and close updates delivered so far
    qrRenders,                \* handlers suspended at await QRCode.toDataURL(qr): the payloads
    purges,                   \* close handlers suspended in the credential purge
    credentials,              \* whether auth_info holds .json files
    library,                  \* what the socket library is assumed to do
    process                   \* the Node process: running, shutting_down (SIGINT handler
                              \* has run, server.close pending), exited

registryVars == <<pairingCodes, heap, issued, expiryTimers, lastGeneratedCode,
                  lastGeneratedDisplayCode>>
clockVars == <<now, nextSweep>>
statusVars == <<botStatus, isConnecting, activeSocket, currentQR, qrImageDataUrl,
                autoActivationAttempts, connectionStartTime>>
envVars == <<library, process>>
processVars == <<initTimers, initsInFlight, sockets, delivered, qrRenders, purges, credentials>>
vars == <<now, nextSweep, pairingCodes, heap, issued, expiryTimers, lastGeneratedCode,
          lastGeneratedDisplayCode, botStatus, isConnecting, activeSocket, currentQR,
          qrImageDataUrl, autoActivationAttempts, connectionStartTime, initTimers,
          initsInFlight, sockets, delivered, qrRenders, purges, credentials, library, process>>

\* ---------------------------------------------------------------- the Map
\* Map.prototype.has / get / set / delete on the entry sequence.  set keeps
\* the position of a key that is present and appends a new one.
MapHas(m, k) == \E i \in 1..Len(m) : m[i].key = k
MapGet(m, k) ==
    IF MapHas(m, k) THEN m[CHOOSE i \in 1..Len(m) : m[i].key = k].ref ELSE Null
MapSet(m, k, r) ==
    IF MapHas(m, k)
    THEN [i \in 1..Len(m) |-> IF m[i].key = k THEN [key |-> k, ref |-> r] ELSE m[i]]
    ELSE Append(m, [key |-> k, ref |-> r])
MapDelete(m, k) ==
    LET Keep(e) == e.key # k IN SelectSeq(m, Keep)
MapSize(m) == Len(m)

\* The objects still referred to by the Map (the others are garbage).
Live(m) == {m[i].ref : i \in 1..Len(m)}
Collect(h, m) == [r \in Live(m) |-> h[r]]

\* ------------------------------------------------------------------ clock
\* A timer whose time has come runs before the clock moves on.
ExpiryTimerDue == \E t \in expiryTimers : t.due <= now
CanAdvance == nextSweep > now /\ ~ExpiryTimerDue

Tick ==
    /\ CanAdvance
    /\ now' = now + 1
    /\ UNCHANGED <<nextSweep, registryVars, statusVars, processVars, envVars>>

\* generateNewPairingCode reads the clock twice: Date.now() for expiresAt
\* (line 409), then new Date() for createdAt (line 418); setTimeout starts
\* after both.  The clock may tick between the two reads: the ticks that pass.
ClockReads == {0, 1}

\* --------------------------------------------------- generateNewPairingCode
\* the codeData object
\* a codeData object that is stamped when it is made
NewCodeDataStamped(code, phoneNumber, ref, t1, t2) ==
    [ code        |-> code,
      displayCode |-> formatDisplayCode(code),
      phoneNumber |-> phoneNumber,
      sessionId   |-> ref,
      status      |-> "pending",
      createdAt   |-> t2,
      expiresAt   |-> t1 + CODE_EXPIRY_TICKS,
      linkedAt    |-> t2 ]

NewCodeData(code, phoneNumber, ref, t1, t2) ==
    [ code        |-> code,
      displayCode |-> formatDisplayCode(code),
      phoneNumber |-> phoneNumber,
      sessionId   |-> ref,
      status      |-> "pending",
      createdAt   |-> t2,
      expiresAt   |-> t1 + CODE_EXPIRY_TICKS,
      linkedAt    |-> Null ]

\* the two pairingCodes.set calls
RegisterCode(m, code, displayCode, ref) ==
    MapSet(MapSet(m, code, ref), displayCode, ref)

\* what generateNewPairingCode returns
generateNewPairingCodeResult(phoneNumber, ds, t1) ==
    LET code == generateAlphanumericCode(ds)
    IN  [ code        |-> code,
          displayCode |-> formatDisplayCode(code),
          sessionId   |-> issued + 1,
          expiresAt   |-> t1 + CODE_EXPIRY_TICKS,
          phoneNumber |-> phoneNumber,
          status      |-> "pending" ]

generateNewPairingCode(phoneNumber, ds, reads) ==
    LET code == generateAlphanumericCode(ds)
        displayCode == formatDisplayCode(code)
        ref == issued + 1
        t1 == now
        t2 == t1 + reads
        t3 == t2
        m == RegisterCode(pairingCodes, code, displayCode, ref)
    IN  /\ t3 > now => CanAdvance
        /\ issued' = ref
        /\ pairingCodes' = m
        /\ heap' = Collect((ref :> NewCodeData(code, phoneNumber, ref, t1, t2)) @@ heap, m)
        /\ lastGeneratedCode' = code
        /\ lastGeneratedDisplayCode' = displayCode
        /\ expiryTimers' = expiryTimers \cup
               {[id |-> ref, code |-> code, displayCode |-> displayCode,
                 due |-> t3 + CODE_EXPIRY_TICKS, swept |-> FALSE]}
        /\ now' = t3
        /\ UNCHANGED <<nextSweep, statusVars, processVars, envVars>>

\* POST /generate-code: the response
PostGenerateCodeResponse(phoneNumber, ds) ==
    LET validation == validateAndFormatPhoneNumber(phoneNumber)
    IN  IF phoneNumber = <<>>
        THEN [http |-> 400, success |-> FALSE, message |-> "Phone number is required"]
        ELSE IF ~validation.isValid
             THEN [http |-> 400, success |-> FALSE, message |-> "Invalid phone number format"]
             ELSE [http |-> 200, success |-> TRUE, message |-> "Pairing code generated successfully!",
                   data |-> generateNewPairingCodeResult(validation.formatted, ds, now)]

\* a handler that tests only that a phone number is given
PostGenerateCodeUnvalidated(phoneNumber, ds, reads) ==
    IF phoneNumber = <<>>
    THEN UNCHANGED vars
    ELSE /\ issued < MaxIssues
         /\ generateNewPairingCode(phoneNumber, <<CHOOSE d \in Draws : ~TooFewOfAClass(CodeOfDraw(d))>>, 0)

\* POST /generate-code
PostGenerateCode(phoneNumber, ds, reads) ==
    LET validation == validateAndFormatPhoneNumber(phoneNumber)
    IN  IF phoneNumber = <<>> \/ ~validation.isValid
        THEN UNCHANGED vars
        ELSE generateNewPairingCode(validation.formatted, ds, reads)

\* the callback of the setTimeout of generateNewPairingCode.  Timers of one
\* duration run in the order they were set.
\* a callback that deletes nothing
ExpiryTimerKeeps(m, h, t) == m

\* a callback that deletes the raw key only
ExpiryTimerDeletesRawKey(m, h, t) ==
    IF MapHas(m, t.code) /\ h[MapGet(m, t.code)].status = "pending"
    THEN MapDelete(m, t.code)
    ELSE m

ExpiryTimerDeletes(m, h, t) ==
    IF MapHas(m, t.code) /\ h[MapGet(m, t.code)].status = "pending"
    THEN MapDelete(MapDelete(m, t.code), t.displayCode)
    ELSE m

ExpiryTimer(t) ==
    /\ t.due <= now
    /\ \A u \in expiryTimers : u.id >= t.id
    /\ pairingCodes' = ExpiryTimerDeletes(pairingCodes, heap, t)
    /\ heap' = Collect(heap, pairingCodes')
    /\ expiryTimers' = expiryTimers \ {t}
    /\ UNCHANGED <<issued, lastGeneratedCode, lastGeneratedDisplayCode, clockVars,
                   statusVars, processVars, envVars>>

\* ------------------------------------------------------ cleanupExpiredCodes
\* the first loop: delete the entries whose object is pending and expired
\* a test of the date alone
IsExpired(h, e, t) == h[e.ref].expiresAt < t

IsExpiredPending(h, e, t) == h[e.ref].expiresAt < t /\ h[e.ref].status = "pending"
\* a first loop that deletes nothing
SweepKeepsExpired(m, h, t) == m

SweepExpired(m, h, t) ==
    LET Keep(e) == ~IsExpiredPending(h, e, t) IN SelectSeq(m, Keep)

\* entries.sort((a, b) => new Date(a[1].createdAt) - new Date(b[1].createdAt)):
\* a stable sort, by insertion.
RECURSIVE InsertByCreatedAt(_, _, _)
InsertByCreatedAt(sorted, e, h) ==
    IF sorted = <<>> THEN <<e>>
    ELSE IF h[Head(sorted).ref].createdAt <= h[e.ref].createdAt
         THEN <<Head(sorted)>> \o InsertByCreatedAt(Tail(sorted), e, h)
         ELSE <<e>> \o sorted
RECURSIVE SortByCreatedAt(_, _)
SortByCreatedAt(m, h) ==
    IF m = <<>> THEN <<>>
    ELSE InsertByCreatedAt(SortByCreatedAt(SubSeq(m, 1, Len(m) - 1), h), m[Len(m)], h)

\* a slice taken from the other end of the sorted entries
ToRemoveNewest(m, h) ==
    IF MapSize(m) > MAX_SESSIONS
    THEN SubSeq(SortByCreatedAt(m, h), MAX_SESSIONS + 1, MapSize(m))
    ELSE <<>>

\* sorted.slice(0, pairingCodes.size - CONFIG.MAX_SESSIONS)
ToRemove(m, h) ==
    IF MapSize(m) > MAX_SESSIONS
    THEN SubSeq(SortByCreatedAt(m, h), 1, MapSize(m) - MAX_SESSIONS)
    ELSE <<>>

\* toRemove.forEach(([code]) => pairingCodes.delete(code))
EvictOldest(m, h) ==
    LET gone == {ToRemove(m, h)[i].key : i \in 1..Len(ToRemove(m, h))}
        Keep(e) == e.key \notin gone
    IN  SelectSeq(m, Keep)

cleanupExpiredCodesResult(m, h, t) == EvictOldest(SweepExpired(m, h, t), h)

\* the setInterval callback
cleanupExpiredCodes ==
    /\ nextSweep <= now
    /\ pairingCodes' = cleanupExpiredCodesResult(pairingCodes, heap, now)
    /\ heap' = Collect(heap, pairingCodes')
    /\ nextSweep' = now + CLEANUP_INTERVAL_TICKS
    /\ expiryTimers' = {[t EXCEPT !.swept = t.swept \/ (t.id \in Live(pairingCodes)
                                                         /\ t.id \notin Live(pairingCodes'))]
                           : t \in expiryTimers}
    /\ UNCHANGED <<now, issued, lastGeneratedCode, lastGeneratedDisplayCode,
                   statusVars, processVars, envVars>>

\* ------------------------------------------------------- POST /verify-code
\* a lookup that keeps the case of the request body
VerifyLookupCaseSensitive(m, code) ==
    LET cleanCode == RemoveDashes(code)
    IN  IF MapHas(m, cleanCode) THEN MapGet(m, cleanCode) ELSE MapGet(m, code)

\* pairingCodes.get(cleanCode) || pairingCodes.get(code)
VerifyLookup(m, code) ==
    LET cleanCode == ToUpperCase(RemoveDashes(code))
    IN  IF MapHas(m, cleanCode) THEN MapGet(m, cleanCode) ELSE MapGet(m, code)

\* a handler without the branch for linked records
VerifyCodeResponseNoLinked(m, h, code) ==
    LET ref == VerifyLookup(m, code)
    IN  IF code = <<>>
        THEN [http |-> 400, success |-> FALSE, message |-> "Code is required", data |-> Null]
        ELSE IF ref = Null
        THEN [http |-> 200, success |-> FALSE, message |-> "Invalid pairing code", data |-> Null]
        ELSE IF h[ref].status = "expired"
        THEN [http |-> 200, success |-> FALSE, message |-> "This pairing code has expired", data |-> Null]
        ELSE [http |-> 200, success |-> TRUE, message |-> "Valid pairing code", data |-> ref]

\* a handler that answers an unknown code with an HTTP error
VerifyCodeResponseNotFound(m, h, code) ==
    LET ref == VerifyLookup(m, code)
    IN  IF code = <<>>
        THEN [http |-> 400, success |-> FALSE, message |-> "Code is required", data |-> Null]
        ELSE IF ref = Null
        THEN [http |-> 404, success |-> FALSE, message |-> "Invalid pairing code", data |-> Null]
        ELSE IF h[ref].status = "expired"
        THEN [http |-> 200, success |-> FALSE, message |-> "This pairing code has expired", data |-> Null]
        ELSE IF h[ref].status = "linked"
        THEN [http |-> 200, success |-> TRUE, message |-> "Pairing code already linked", data |-> ref]
        ELSE [http |-> 200, success |-> TRUE, message |-> "Valid pairing code", data |-> ref]

\* the response of the handler, given the Map and the objects it refers to
VerifyCodeResponse(m, h, code) ==
    LET ref == VerifyLookup(m, code)
    IN  IF code = <<>>
        THEN [http |-> 400, success |-> FALSE, message |-> "Code is required", data |-> Null]
        ELSE IF ref = Null
        THEN [http |-> 200, success |-> FALSE, message |-> "Invalid pairing code", data |-> Null]
        ELSE IF h[ref].status = "expired"
        THEN [http |-> 200, success |-> FALSE, message |-> "This pairing code has expired", data |-> Null]
        ELSE IF h[ref].status = "linked"
        THEN [http |-> 200, success |-> TRUE, message |-> "Pairing code already linked", data |-> ref]
        ELSE [http |-> 200, success |-> TRUE, message |-> "Valid pairing code", data |-> ref]

PostVerifyCodeResponse(code) == VerifyCodeResponse(pairingCodes, heap, code)

\* The request bodies tried: every code the generator can return, raw and in
\* display form, as is and lower-cased; a code never issued; no code.
LowerOfUpper == [c \in UpperSet |-> Lower[CHOOSE i \in 1..26 : Upper[i] = c]]
ToLowerChar(c) == IF c \in DOMAIN LowerOfUpper THEN LowerOfUpper[c] ELSE c
ToLowerCase(s) == [i \in 1..Len(s) |-> ToLowerChar(s[i])]
GeneratedCodes == {generateAlphanumericCode(ds) : ds \in DrawSeqs}
FormsOf(code) == { code, formatDisplayCode(code),
                   ToLowerCase(code), ToLowerCase(formatDisplayCode(code)) }
VerifyInputs ==
    UNION {FormsOf(c) : c \in GeneratedCodes}
    \cup { <<>>, <<"Z", "Z", "9", "9", "Z", "Z", "9", "9">> }

\* the handler reads and answers; it writes nothing
PostVerifyCode ==
    /\ {code \in VerifyInputs : PostVerifyCodeResponse(code).http \notin {200, 400}} = {}
    /\ UNCHANGED vars

\* ------------------------------------------------------------- POST /getqr
\* the response: the image is sent when the status is 'qr_ready' and an
\* image is stored
PostGetQrResponse ==
    IF botStatus = "qr_ready" /\ qrImageDataUrl # Null
    THEN [http |-> 200, success |-> TRUE, qrImage |-> qrImageDataUrl, status |-> botStatus,
          qrAttempts |-> Null]
    ELSE [http |-> 200, success |-> FALSE, qrImage |-> Null, status |-> botStatus,
          qrAttempts |-> autoActivationAttempts]

\* POST /getqr as it would be if an image were handed out once and then dropped
PostGetQrConsumesImage ==
    /\ PostGetQrResponse.http = 200
    /\ qrImageDataUrl' = IF PostGetQrResponse.success THEN Null ELSE qrImageDataUrl
    /\ UNCHANGED <<clockVars, registryVars, processVars, envVars, botStatus, isConnecting,
                   activeSocket, currentQR, autoActivationAttempts, connectionStartTime>>

\* the handler reads and answers; it writes nothing
PostGetQr ==
    /\ PostGetQrResponse.http = 200
    /\ UNCHANGED vars

\* ------------------------------------------- the routes that only read
getStatusColor(status) ==
    CASE status = "online" -> "#28a745"
      [] status = "qr_ready" -> "#ffc107"
      [] status = "connecting" -> "#17a2b8"
      [] status = "disconnected" -> "#dc3545"
      [] OTHER -> "#6c757d"

getStatusText(status) ==
    CASE status = "online" -> "ONLINE - Ready for Pairing"
      [] status = "qr_ready" -> "QR READY - Scan to Connect"
      [] status = "connecting" -> "CONNECTING..."
      [] status = "disconnected" -> "DISCONNECTED - Retrying..."
      [] OTHER -> "UNKNOWN"

\* GET /: the page shows the status and the size of the registry
GetRootResponse ==
    [http |-> 200, statusColor |-> getStatusColor(botStatus),
     statusText |-> getStatusText(botStatus), pairingCodesCount |-> MapSize(pairingCodes)]

GetRoot ==
    /\ GetRootResponse.http = 200
    /\ UNCHANGED vars

\* GET /status
GetStatusResponse ==
    [http |-> 200, status |-> botStatus, statusText |-> getStatusText(botStatus),
     statusColor |-> getStatusColor(botStatus), pairingCodes |-> MapSize(pairingCodes),
     qrAttempts |-> autoActivationAttempts, maxQrAttempts |-> CONFIG_MAX_QR_ATTEMPTS,
     qrReady |-> (botStatus = "qr_ready"), online |-> (botStatus = "online")]

GetStatus ==
    /\ GetStatusResponse.http = 200
    /\ UNCHANGED vars

\* GET /health
GetHealthResponse == [http |-> 200, status |-> "healthy", botStatus |-> botStatus]

GetHealth ==
    /\ GetHealthResponse.http = 200
    /\ UNCHANGED vars

\* GET /admin/codes: one element for each entry of the Map, in its order
GetAdminCodesResponse ==
    LET codes == [i \in 1..Len(pairingCodes) |->
                     LET data == heap[pairingCodes[i].ref]
                     IN  [code |-> pairingCodes[i].key, displayCode |-> data.displayCode,
                          phoneNumber |-> data.phoneNumber, status |-> data.status,
                          createdAt |-> data.createdAt, expiresAt |-> data.expiresAt,
                          linkedAt |-> data.linkedAt]]
    IN  [http |-> 200, success |-> TRUE, count |-> Len(codes), codes |-> codes]

GetAdminCodes ==
    /\ GetAdminCodesResponse.count = MapSize(pairingCodes)
    /\ UNCHANGED vars

\* ------------------------------------------------------ the socket library
\* DisconnectReason of @whiskeysockets/baileys
DisconnectReason ==
    [ loggedOut |-> 401, restartRequired |-> 515, timedOut |-> 408,
      connectionLost |-> 408, connectionClosed |-> 428, badSession |-> 500 ]

\* The status codes a 'close' update is tried with; Undefined: no lastDisconnect.
StatusCodes == {401, 515, 408, 428, 500, Undefined}

\* library = "lifecycle": a socket reports connecting, then QR payloads, then
\* open, then close exactly once, and nothing after its close.
\* library = "opaque": nothing is assumed of the library; a socket whose
\* handler is registered may deliver any update at any time.
Libraries == {"lifecycle", "opaque"}

MayDeliver(state, kind) ==
    /\ kind # "open" => delivered < MaxUpdates
    /\ library = "lifecycle" =>
          IF kind = "close" THEN state # "closed" ELSE state = "connecting"

\* --------------------------------------------------------- reconnect timers
\* setTimeout(() => initWhatsApp(), delay): how many are pending, per delay (ms)
Delays == {2000, 5000, 10000, 15000}
NoTimers == [d \in Delays |-> 0]
Schedule(timers, delay) == [timers EXCEPT ![delay] = @ + 1]
Unschedule(timers, delay) == [timers EXCEPT ![delay] = @ - 1]
PendingInitTimers(timers) == timers[2000] + timers[5000] + timers[10000] + timers[15000]

\* ------------------------------------------------------------- initWhatsApp
\* A reconnect timer runs out and calls initWhatsApp: the guard, then the
\* assignments before the try block.  The function then waits in its try
\* block (ensureDir, readdir, useMultiFileAuthState, fetchLatestBaileysVersion).
\* the assignments without the guard before them
initWhatsAppStartUnguarded ==
    /\ isConnecting' = TRUE
    /\ connectionStartTime' = now
    /\ botStatus' = "connecting"
    /\ initsInFlight' = initsInFlight + 1
    /\ UNCHANGED <<activeSocket, currentQR, qrImageDataUrl, autoActivationAttempts>>

initWhatsAppStart ==
    IF isConnecting
    THEN UNCHANGED <<statusVars, initsInFlight>>
    ELSE /\ isConnecting' = TRUE
         /\ connectionStartTime' = now
         /\ botStatus' = "connecting"
         /\ initsInFlight' = initsInFlight + 1
         /\ UNCHANGED <<activeSocket, currentQR, qrImageDataUrl, autoActivationAttempts>>

InitTimer(delay) ==
    /\ initTimers[delay] > 0
    /\ initTimers' = Unschedule(initTimers, delay)
    /\ initWhatsAppStart
    /\ UNCHANGED <<registryVars, clockVars, sockets, delivered, qrRenders, purges, credentials, envVars>>

\* the try block completes: makeWASocket, the handlers, activeSocket = sock
initWhatsAppSocket ==
    /\ initsInFlight > 0
    /\ initsInFlight' = initsInFlight - 1
    /\ sockets' = Append(sockets, "connecting")
    /\ activeSocket' = Len(sockets) + 1
    /\ UNCHANGED <<registryVars, clockVars, botStatus, isConnecting, currentQR, qrImageDataUrl,
                   autoActivationAttempts, connectionStartTime, initTimers, delivered, qrRenders,
                   purges, credentials, envVars>>

\* a catch block that schedules the retry and leaves the state as it was
initWhatsAppCatchRetryOnly ==
    /\ initsInFlight > 0
    /\ initsInFlight' = initsInFlight - 1
    /\ initTimers' = Schedule(initTimers, 15000)
    /\ UNCHANGED <<registryVars, clockVars, statusVars, sockets, delivered, qrRenders,
                   purges, credentials, envVars>>

\* a catch block that gives up: no retry is scheduled
initWhatsAppCatchGivesUp ==
    /\ initsInFlight > 0
    /\ initsInFlight' = initsInFlight - 1
    /\ botStatus' = "disconnected"
    /\ isConnecting' = FALSE
    /\ UNCHANGED <<registryVars, clockVars, activeSocket, currentQR, qrImageDataUrl,
                   autoActivationAttempts, connectionStartTime, sockets, delivered, qrRenders,
                   purges, credentials, envVars, initTimers>>

\* the catch block
initWhatsAppCatch ==
    /\ initsInFlight > 0
    /\ initsInFlight' = initsInFlight - 1
    /\ botStatus' = "disconnected"
    /\ isConnecting' = FALSE
    /\ initTimers' = Schedule(initTimers, 15000)
    /\ UNCHANGED <<registryVars, clockVars, activeSocket, currentQR, qrImageDataUrl,
                   autoActivationAttempts, connectionStartTime, sockets, delivered, qrRenders,
                   purges, credentials, envVars>>

\* ------------------------------------------------ connection.update handler
\* The payload of a QR update is named by the number of the update, the image
\* QRCode.toDataURL makes of a payload by a number that is no payload: values
\* of one kind with null, so that `if (qrImageDataUrl)` can be evaluated.
QrPayload(sid) == delivered + 1
QRCodeToDataURL(qr) == 100 + qr

\* a branch that stops storing payloads once the counter has reached the maximum
OnQrUpToMax(sid) ==
    /\ MayDeliver(sockets[sid], "qr")
    /\ delivered' = delivered + 1
    /\ IF autoActivationAttempts >= CONFIG_MAX_QR_ATTEMPTS
       THEN UNCHANGED <<currentQR, botStatus, autoActivationAttempts, qrRenders>>
       ELSE /\ currentQR' = QrPayload(sid)
            /\ botStatus' = "qr_ready"
            /\ autoActivationAttempts' = autoActivationAttempts + 1
            /\ qrRenders' = qrRenders \cup {QrPayload(sid)}
    /\ UNCHANGED <<registryVars, clockVars, isConnecting, activeSocket, qrImageDataUrl,
                   connectionStartTime, initTimers, initsInFlight, sockets, purges, credentials,
                   envVars>>

\* if (qr): up to the await of QRCode.toDataURL
OnQr(sid) ==
    /\ MayDeliver(sockets[sid], "qr")
    /\ delivered' = delivered + 1
    /\ currentQR' = QrPayload(sid)
    /\ botStatus' = "qr_ready"
    /\ autoActivationAttempts' = autoActivationAttempts + 1
    /\ qrRenders' = qrRenders \cup {QrPayload(sid)}
    /\ UNCHANGED <<registryVars, clockVars, isConnecting, activeSocket, qrImageDataUrl,
                   connectionStartTime, initTimers, initsInFlight, sockets, purges, credentials,
                   envVars>>

\* QRCode.toDataURL resolves: qrImageDataUrl = ..., then session_info.json is
\* written into the credential directory
OnQrRendered(qr) ==
    /\ qr \in qrRenders
    /\ qrRenders' = qrRenders \ {qr}
    /\ qrImageDataUrl' = QRCodeToDataURL(qr)
    /\ credentials' = TRUE
    /\ UNCHANGED <<registryVars, clockVars, botStatus, isConnecting, activeSocket, currentQR,
                   autoActivationAttempts, connectionStartTime, initTimers, initsInFlight,
                   sockets, delivered, purges, envVars>>

\* QRCode.toDataURL rejects: the catch block only logs
OnQrRenderError(qr) ==
    /\ qr \in qrRenders
    /\ qrRenders' = qrRenders \ {qr}
    /\ UNCHANGED <<registryVars, clockVars, statusVars, initTimers, initsInFlight, sockets,
                   delivered, purges, credentials, envVars>>

\* a loop that stamps every record, whatever its status
LinkEveryRecord(h, m, i, t) ==
    [r \in DOMAIN h |-> [h[r] EXCEPT !.status = "linked", !.linkedAt = t]]

\* the loop of the 'open' branch over pairingCodes.entries(), entry by entry
RECURSIVE LinkPending(_, _, _, _)
LinkPending(h, m, i, t) ==
    IF i > Len(m) THEN h
    ELSE IF h[m[i].ref].status = "pending"
         THEN LinkPending([h EXCEPT ![m[i].ref].status = "linked",
                                    ![m[i].ref].linkedAt = t], m, i + 1, t)
         ELSE LinkPending(h, m, i + 1, t)

\* an 'open' branch that leaves the attempt counter as it is
OnOpenKeepsAttempts(sid) ==
    /\ MayDeliver(sockets[sid], "open")
    /\ sockets' = [sockets EXCEPT ![sid] = "open"]
    /\ botStatus' = "online"
    /\ isConnecting' = FALSE
    /\ heap' = LinkPending(heap, pairingCodes, 1, now)
    /\ credentials' = TRUE
    /\ UNCHANGED <<pairingCodes, issued, expiryTimers, lastGeneratedCode,
                   lastGeneratedDisplayCode, clockVars, activeSocket, currentQR, qrImageDataUrl,
                   autoActivationAttempts, connectionStartTime, initTimers, initsInFlight,
                   delivered, qrRenders, purges, envVars>>

\* if (connection === 'open'), up to the await of fs.writeJson(connection_info.json)
\* an 'open' branch that leaves the in-flight flag as it is
OnOpenKeepsConnecting(sid) ==
    /\ MayDeliver(sockets[sid], "open")
    /\ sockets' = [sockets EXCEPT ![sid] = "open"]
    /\ botStatus' = "online"
    /\ autoActivationAttempts' = 0
    /\ heap' = LinkPending(heap, pairingCodes, 1, now)
    /\ credentials' = TRUE
    /\ UNCHANGED <<pairingCodes, issued, expiryTimers, lastGeneratedCode,
                   lastGeneratedDisplayCode, clockVars, activeSocket, currentQR, qrImageDataUrl,
                   connectionStartTime, initTimers, initsInFlight, delivered, qrRenders, purges,
                   envVars, isConnecting>>

OnOpen(sid) ==
    /\ MayDeliver(sockets[sid], "open")
    /\ sockets' = [sockets EXCEPT ![sid] = "open"]
    /\ botStatus' = "online"
    /\ isConnecting' = FALSE
    /\ autoActivationAttempts' = 0
    /\ heap' = LinkPending(heap, pairingCodes, 1, now)
    /\ credentials' = TRUE
    /\ UNCHANGED <<pairingCodes, issued, expiryTimers, lastGeneratedCode,
                   lastGeneratedDisplayCode, clockVars, activeSocket, currentQR, qrImageDataUrl,
                   connectionStartTime, initTimers, initsInFlight, delivered, qrRenders, purges,
                   envVars>>

\* one short delay for every code but loggedOut
ReconnectDelayShort(statusCode) ==
    IF statusCode = DisconnectReason.loggedOut THEN 10000 ELSE 5000

\* the delay of the reconnect the 'close' branch schedules, by status code
ReconnectDelay(statusCode) ==
    IF statusCode = DisconnectReason.loggedOut THEN 10000
    ELSE IF \/ statusCode = DisconnectReason.restartRequired
            \/ statusCode = DisconnectReason.timedOut
            \/ statusCode = DisconnectReason.connectionLost
         THEN 5000
         ELSE 10000

\* if (connection === 'close'): for loggedOut up to the await of fs.readdir,
\* for every other code to the end
\* a 'close' branch that takes back the links made while the socket was open
OnCloseUnlinks(sid, statusCode) ==
    /\ MayDeliver(sockets[sid], "close")
    /\ sockets' = [sockets EXCEPT ![sid] = "closed"]
    /\ delivered' = delivered + 1
    /\ botStatus' = "disconnected"
    /\ isConnecting' = FALSE
    /\ heap' = [r \in DOMAIN heap |-> [heap[r] EXCEPT !.status = "pending", !.linkedAt = Null]]
    /\ IF statusCode = DisconnectReason.loggedOut
       THEN purges' = purges + 1 /\ UNCHANGED initTimers
       ELSE initTimers' = Schedule(initTimers, ReconnectDelay(statusCode)) /\ UNCHANGED purges
    /\ UNCHANGED <<pairingCodes, issued, expiryTimers, lastGeneratedCode,
                   lastGeneratedDisplayCode, clockVars, activeSocket, currentQR, qrImageDataUrl,
                   autoActivationAttempts, connectionStartTime, initsInFlight, qrRenders,
                   credentials, envVars>>

\* a 'close' branch that shows the reconnection it is about to schedule
OnCloseShowsConnecting(sid, statusCode) ==
    /\ MayDeliver(sockets[sid], "close")
    /\ sockets' = [sockets EXCEPT ![sid] = "closed"]
    /\ delivered' = delivered + 1
    /\ botStatus' = "connecting"
    /\ isConnecting' = FALSE
    /\ IF statusCode = DisconnectReason.loggedOut
       THEN purges' = purges + 1 /\ UNCHANGED initTimers
       ELSE initTimers' = Schedule(initTimers, ReconnectDelay(statusCode)) /\ UNCHANGED purges
    /\ UNCHANGED <<registryVars, clockVars, activeSocket, currentQR, qrImageDataUrl,
                   autoActivationAttempts, connectionStartTime, initsInFlight, qrRenders,
                   credentials, envVars>>

OnClose(sid, statusCode) ==
    /\ MayDeliver(sockets[sid], "close")
    /\ sockets' = [sockets EXCEPT ![sid] = "closed"]
    /\ delivered' = delivered + 1
    /\ botStatus' = "disconnected"
    /\ isConnecting' = FALSE
    /\ IF statusCode = DisconnectReason.loggedOut
       THEN purges' = purges + 1 /\ UNCHANGED initTimers
       ELSE initTimers' = Schedule(initTimers, ReconnectDelay(statusCode)) /\ UNCHANGED purges
    /\ UNCHANGED <<registryVars, clockVars, activeSocket, currentQR, qrImageDataUrl,
                   autoActivationAttempts, connectionStartTime, initsInFlight, qrRenders,
                   credentials, envVars>>

\* a branch whose setTimeout is inside the try block: no reconnect when the
\* removal throws
OnLoggedOutPurgedInsideTry(removed) ==
    /\ purges > 0
    /\ purges' = purges - 1
    /\ credentials' = IF removed THEN FALSE ELSE credentials
    /\ initTimers' = IF removed
                     THEN Schedule(initTimers, ReconnectDelay(DisconnectReason.loggedOut))
                     ELSE initTimers
    /\ UNCHANGED <<registryVars, clockVars, statusVars, initsInFlight, sockets, delivered,
                   qrRenders, envVars>>

\* the loggedOut branch after its try/catch: the files are removed (or the
\* removal failed and was logged), then the reconnect is scheduled
OnLoggedOutPurged(removed) ==
    /\ purges > 0
    /\ purges' = purges - 1
    /\ credentials' = IF removed THEN FALSE ELSE credentials
    /\ initTimers' = Schedule(initTimers, ReconnectDelay(DisconnectReason.loggedOut))
    /\ UNCHANGED <<registryVars, clockVars, statusVars, initsInFlight, sockets, delivered,
                   qrRenders, envVars>>

\* ---------------------------------------------------------- specifications
InitProgram ==
    /\ now = 0
    /\ nextSweep = CLEANUP_INTERVAL_TICKS
    /\ pairingCodes = <<>>
    /\ heap = <<>>
    /\ issued = 0
    /\ expiryTimers = {}
    /\ lastGeneratedCode = Null
    /\ lastGeneratedDisplayCode = Null
    /\ botStatus = "disconnected"
    /\ isConnecting = FALSE
    /\ activeSocket = Null
    /\ currentQR = Null
    /\ qrImageDataUrl = Null
    /\ autoActivationAttempts = 0
    /\ connectionStartTime = Null
    /\ initTimers = Schedule(NoTimers, 2000)
    /\ initsInFlight = 0
    /\ sockets = <<>>
    /\ delivered = 0
    /\ qrRenders = {}
    /\ purges = 0
    /\ credentials = FALSE
    /\ process = "running"

Init == InitProgram /\ library = "lifecycle"
InitOpaque == InitProgram /\ library = "opaque"

\* ---- the steps of the environment
ClockTick == now < MaxTime /\ Tick

\* the request bodies POST /generate-code accepts, and those it answers 400
Accepted(phoneNumber) ==
    phoneNumber # <<>> /\ validateAndFormatPhoneNumber(phoneNumber).isValid

GenerateCodeRequest ==
    \E phoneNumber \in {p \in PhoneInputs : Accepted(p)}, ds \in DrawSeqs, reads \in ClockReads :
        /\ issued < MaxIssues
        /\ now + reads <= MaxTime
        /\ PostGenerateCode(phoneNumber, ds, reads)

GenerateCodeRejected ==
    \E phoneNumber \in {p \in PhoneInputs : ~Accepted(p)} :
        PostGenerateCode(phoneNumber, <<>>, 0)

ExpiryTimerFires == \E t \in expiryTimers : ExpiryTimer(t)

VerifyCodeRequest == PostVerifyCode

GetQrRequest == PostGetQr

GetRootRequest == GetRoot

GetStatusRequest == GetStatus

GetHealthRequest == GetHealth

GetAdminCodesRequest == GetAdminCodes

InitTimerFires == \E delay \in Delays : InitTimer(delay)

OpenUpdate == \E sid \in 1..Len(sockets) : OnOpen(sid)

CloseUpdate == \E sid \in 1..Len(sockets), statusCode \in StatusCodes : OnClose(sid, statusCode)

PurgeEnds == \E removed \in BOOLEAN : OnLoggedOutPurged(removed)

QrUpdate == \E sid \in 1..Len(sockets) : OnQr(sid)

QrRenderResolves == \E qr \in qrRenders : OnQrRendered(qr)

QrRenderRejects == \E qr \in qrRenders : OnQrRenderError(qr)

\* The registry with everything that writes it: the requests, the two kinds
\* of timers, and 'open' updates arriving at any moment.
NextRegistry ==
    \/ ClockTick
    \/ GenerateCodeRequest
    \/ GenerateCodeRejected
    \/ ExpiryTimerFires
    \/ cleanupExpiredCodes
    \/ VerifyCodeRequest
    \/ InitTimerFires
    \/ initWhatsAppSocket
    \/ OpenUpdate

SpecRegistry == InitOpaque /\ [][NextRegistry]_vars

\* The same, with the scheduling of the event loop: time passes, a timer
\* whose time has come runs, and so does the interval callback.
SpecRegistryLive ==
    /\ SpecRegistry
    /\ WF_vars(ClockTick)
    /\ WF_vars(ExpiryTimerFires)
    /\ WF_vars(cleanupExpiredCodes)

\* The whole connection mirror, within one tick of the clock (the reconnect
\* delays are shorter than a tick) and with few pairing codes.
BriefGenerateCodeRequest ==
    \E phoneNumber \in {p \in PhoneInputs : Accepted(p)}, ds \in DrawSeqs :
        /\ issued < BriefIssues
        /\ PostGenerateCode(phoneNumber, ds, 0)

Next ==
    \/ BriefGenerateCodeRequest
    \/ GenerateCodeRejected
    \/ VerifyCodeRequest
    \/ GetQrRequest
    \/ GetRootRequest
    \/ GetStatusRequest
    \/ GetHealthRequest
    \/ GetAdminCodesRequest
    \/ InitTimerFires
    \/ initWhatsAppSocket
    \/ initWhatsAppCatch
    \/ QrUpdate
    \/ QrRenderResolves
    \/ QrRenderRejects
    \/ OpenUpdate
    \/ CloseUpdate
    \/ PurgeEnds

Spec == Init /\ [][Next]_vars

\* ---- shutdown
\* process.on('SIGINT'): activeSocket.end() when a socket is installed, then
\* server.close(callback).  The socket that was ended has its 'close' update
\* still to deliver (none if it had closed before).
Sigint ==
    /\ process = "running"
    /\ process' = "shutting_down"
    /\ sockets' = IF activeSocket # Null /\ sockets[activeSocket] # "closed"
                  THEN [sockets EXCEPT ![activeSocket] = "ending"]
                  ELSE sockets
    /\ UNCHANGED <<registryVars, clockVars, statusVars, initTimers, initsInFlight, delivered,
                   qrRenders, purges, credentials, library>>

\* the callback of server.close, once the HTTP connections have ended:
\* process.exit(0)
ServerClosed ==
    /\ process = "shutting_down"
    /\ process' = "exited"
    /\ UNCHANGED <<registryVars, clockVars, statusVars, processVars, library>>

\* until the process exits, the event loop goes on as before
Running == process # "exited" /\ Next

NextShutdown ==
    \/ Running
    \/ Sigint
    \/ ServerClosed

SpecShutdown == Init /\ [][NextShutdown]_vars

\* The same, with the scheduling of the event loop: a pending reconnect
\* timer fires and the purge of the credential files ends.
SpecLive ==
    /\ Spec
    /\ WF_vars(InitTimerFires)
    /\ WF_vars(PurgeEnds)

\* The connect / disconnect cycle with nothing assumed of the library.
NextOpaque ==
    \/ InitTimerFires
    \/ initWhatsAppSocket
    \/ initWhatsAppCatch
    \/ OpenUpdate
    \/ CloseUpdate
    \/ PurgeEnds

SpecOpaque == InitOpaque /\ [][NextOpaque]_vars

\* ------------------------------------------------------------- properties
\* XXXX-XXXX over the generator's alphabet
IsDisplayForm(s) ==
    /\ Len(s) = 9
    /\ s[5] = "-"
    /\ \A i \in (1..4) \cup (6..9) : \E j \in 1..Len(chars) : chars[j] = s[i]

\* C1: every call of generateNewPairingCode, in any connection status,
\* registers under the raw and the display key a record with status
\* 'pending', linkedAt null and expiresAt exactly CODE_EXPIRY_MINUTES after
\* createdAt, and returns status 'pending' with a displayCode XXXX-XXXX.
C1_IssueContract ==
    [][\A phoneNumber \in PhoneInputs, ds \in DrawSeqs, reads \in ClockReads :
          (/\ Accepted(phoneNumber)
           /\ issued' # issued
           /\ PostGenerateCode(phoneNumber, ds, reads)) =>
              LET ret == PostGenerateCodeResponse(phoneNumber, ds).data
                  rec == heap'[issued']
              IN  /\ MapGet(pairingCodes', ret.code) = issued'
                  /\ MapGet(pairingCodes', ret.displayCode) = issued'
                  /\ rec.status = "pending"
                  /\ rec.linkedAt = Null
                  /\ rec.expiresAt = rec.createdAt + CODE_EXPIRY_TICKS
                  /\ ret.status = "pending"
                  /\ IsDisplayForm(ret.displayCode)
      ]_vars

\* C2: right after a code is issued, POST /verify-code finds the record just
\* created by the raw code and by the display form, as issued and lower-cased.
C2_LookupAfterIssue ==
    [][issued' # issued =>
          /\ heap'[issued'].code = lastGeneratedCode'
          /\ \A f \in FormsOf(lastGeneratedCode') :
                 LET res == VerifyCodeResponse(pairingCodes', heap', f)
                 IN  /\ res.success
                     /\ res.message = "Valid pairing code"
                     /\ res.data = issued'
      ]_vars

\* a code has been issued and every form of it finds the newest record
C2_Witness ==
    /\ issued > 0
    /\ \A f \in FormsOf(lastGeneratedCode) : PostVerifyCodeResponse(f).data = issued

\* C3: an 'open' update turns, in one step, every pending record into a linked
\* one with linkedAt set to the time of the update; a record already linked
\* keeps its status and its linkedAt; no entry is added or removed.
C3_OpenLinksEveryPending ==
    [][OpenUpdate =>
          /\ pairingCodes' = pairingCodes
          /\ DOMAIN heap' = DOMAIN heap
          /\ \A r \in DOMAIN heap :
                IF heap[r].status = "pending"
                THEN /\ heap'[r].status = "linked"
                     /\ heap'[r].linkedAt # Null
                     /\ [heap'[r] EXCEPT !.status = "pending", !.linkedAt = Null] = heap[r]
                ELSE heap'[r] = heap[r]
      ]_vars

\* two records linked by two different 'open' updates
C3_Witness ==
    \E r1, r2 \in DOMAIN heap :
        /\ heap[r1].status = "linked"
        /\ heap[r2].status = "linked"
        /\ heap[r1].linkedAt # Null
        /\ heap[r1].linkedAt < heap[r2].linkedAt

\* C4: issuing a code never overwrites or detaches a pending record that is
\* in the registry: every key of a pending record still leads to that record
\* after the call, also when the generator returns a code that is in use.
C4_IssueKeepsPendingRecords ==
    [][issued' # issued =>
          \A i \in 1..Len(pairingCodes) :
              heap[pairingCodes[i].ref].status = "pending" =>
                  MapGet(pairingCodes', pairingCodes[i].key) = pairingCodes[i].ref
      ]_vars

\* C5: no pending record outlives its expiry: a pending record is gone from
\* the registry, under each of its keys, no later than one CLEANUP_INTERVAL
\* after its expiresAt (timers and the interval run when they are due).
\* The sweep leaves no pending record whose expiresAt lies before its run.
C5_PendingGoneOneSweepAfterExpiry ==
    /\ [](\A i \in 1..Len(pairingCodes) :
             heap[pairingCodes[i].ref].status = "pending" =>
                 now <= heap[pairingCodes[i].ref].expiresAt + CLEANUP_INTERVAL_TICKS)
    /\ [][cleanupExpiredCodes =>
             \A i \in 1..Len(pairingCodes) :
                 (/\ heap[pairingCodes[i].ref].status = "pending"
                  /\ heap[pairingCodes[i].ref].expiresAt < now) =>
                     ~MapHas(pairingCodes', pairingCodes[i].key)
         ]_vars

\* the sweep has emptied the registry while an expiry timer is still to run
C5_Witness ==
    /\ issued > 0
    /\ pairingCodes = <<>>
    /\ expiryTimers # {}
    /\ now > CODE_EXPIRY_TICKS

\* C6: POST /verify-code never answers 'Valid pairing code' for a record
\* whose expiresAt has passed, even before the timer or the sweep has run.
C6_NoValidAnswerAfterExpiry ==
    \A code \in VerifyInputs :
        PostVerifyCodeResponse(code).message = "Valid pairing code" =>
            now <= heap[PostVerifyCodeResponse(code).data].expiresAt

\* C6, as the code has it: there is no check of expiresAt on read; a record
\* is answered 'Valid pairing code' until it is removed, which is at most one
\* CLEANUP_INTERVAL after its expiresAt.
C6_ValidAnswerAtMostOneSweepAfterExpiry ==
    \A code \in VerifyInputs :
        PostVerifyCodeResponse(code).message = "Valid pairing code" =>
            now <= heap[PostVerifyCodeResponse(code).data].expiresAt + CLEANUP_INTERVAL_TICKS

\* a record answered as valid one whole interval after its expiresAt
C6_Witness ==
    \E code \in VerifyInputs :
        /\ PostVerifyCodeResponse(code).message = "Valid pairing code"
        /\ now = heap[PostVerifyCodeResponse(code).data].expiresAt + CLEANUP_INTERVAL_TICKS

\* C7: after any call that issues a code, the registry holds at most
\* MAX_SESSIONS entries, also when it was at the cap before the call.
C7_IssueRespectsCap ==
    [][issued' # issued => MapSize(pairingCodes') <= MAX_SESSIONS]_vars

\* C8: after every run of cleanupExpiredCodes the registry holds at most
\* MAX_SESSIONS entries, and an entry evicted for capacity (removed though not
\* pending and expired) has a createdAt no later than that of every record
\* that survives the run.
C8_SweepCapsAndEvictsOldest ==
    [][cleanupExpiredCodes =>
          /\ MapSize(pairingCodes') <= MAX_SESSIONS
          /\ \A i \in 1..Len(pairingCodes) :
                (/\ ~MapHas(pairingCodes', pairingCodes[i].key)
                 /\ ~(/\ heap[pairingCodes[i].ref].status = "pending"
                      /\ heap[pairingCodes[i].ref].expiresAt < now)) =>
                    \A j \in 1..Len(pairingCodes') :
                        heap[pairingCodes[i].ref].createdAt
                            <= heap[pairingCodes'[j].ref].createdAt
      ]_vars

\* a record evicted for capacity: it is gone though its timer has not run
\* and it cannot have expired (expiresAt is at least due - Max(ClockReads))
C8_Witness ==
    \E t \in expiryTimers :
        /\ ~MapHas(pairingCodes, t.code)
        /\ ~MapHas(pairingCodes, t.displayCode)
        /\ now + 1 <= t.due
        /\ MapSize(pairingCodes) = MAX_SESSIONS

\* C9: initWhatsApp called while isConnecting is true returns at once: it
\* changes neither botStatus, isConnecting, connectionStartTime, the active
\* socket nor anything else, creates no socket and schedules no timer (of the
\* pending timers only the one that made the call is gone).
C9_InitWhileConnectingIsNoOp ==
    [][(InitTimerFires /\ isConnecting) =>
          /\ UNCHANGED <<statusVars, registryVars, clockVars, initsInFlight, sockets,
                         delivered, qrRenders, purges, credentials>>
          /\ \E delay \in Delays :
                /\ initTimers[delay] > 0
                /\ initTimers' = [initTimers EXCEPT ![delay] = @ - 1]
      ]_vars

\* two reconnects were scheduled by two 'close' updates of one socket and
\* both timers have run, yet one attempt only is in progress: the second
\* call met the guard
C9_Witness ==
    /\ isConnecting
    /\ initsInFlight = 1
    /\ Len(sockets) = 1
    /\ delivered = 2
    /\ purges = 0
    /\ PendingInitTimers(initTimers) = 0

\* C10: the 'close' branch sets botStatus to 'disconnected', clears
\* isConnecting and schedules exactly one call of initWhatsApp: after 5 s for
\* restartRequired, timedOut and connectionLost, after 10 s for every other
\* or missing code, and for loggedOut after 10 s once the purge has ended.
C10_CloseSchedulesOneReconnect ==
    [][/\ \A sid \in 1..Len(sockets), statusCode \in StatusCodes :
             OnClose(sid, statusCode) =>
                /\ botStatus' = "disconnected"
                /\ isConnecting' = FALSE
                /\ IF statusCode = 401
                   THEN initTimers' = initTimers /\ purges' = purges + 1
                   ELSE /\ purges' = purges
                        /\ initTimers' =
                              [initTimers EXCEPT
                                 ![IF statusCode \in {515, 408} THEN 5000 ELSE 10000] = @ + 1]
       /\ PurgeEnds =>
             /\ purges' = purges - 1
             /\ initTimers' = [initTimers EXCEPT ![10000] = @ + 1]
      ]_vars

\* a socket has closed with a transient reason: one reconnect is pending,
\* after 5 s
C10_Witness ==
    /\ botStatus = "disconnected"
    /\ ~isConnecting
    /\ \E sid \in 1..Len(sockets) : sockets[sid] = "closed"
    /\ initTimers = Schedule(NoTimers, 5000)
    /\ purges = 0

\* C11: on a 'close' update with reason loggedOut, botStatus is 'disconnected'
\* from the start of the purge of the credential files and for as long as it
\* is in progress; no reconnect is scheduled before the purge has ended, and
\* one is scheduled (10 s) when it ends, whether the files were removed or
\* the removal failed.
C11_LoggedOutPurgeThenReconnect ==
    /\ [](purges > 0 => botStatus = "disconnected" /\ ~isConnecting)
    /\ [][(\E sid \in 1..Len(sockets) : OnClose(sid, DisconnectReason.loggedOut)) =>
             /\ botStatus' = "disconnected"
             /\ purges' = purges + 1
             /\ initTimers' = initTimers
             /\ credentials' = credentials
         ]_vars
    /\ [][\A removed \in BOOLEAN :
             OnLoggedOutPurged(removed) =>
                /\ purges' = purges - 1
                /\ credentials' = (credentials /\ ~removed)
                /\ initTimers' = [initTimers EXCEPT ![10000] = @ + 1]
         ]_vars

\* a purge is in progress: the status is 'disconnected', the files are still
\* there and no reconnect is pending
C11_Witness ==
    /\ purges = 1
    /\ credentials
    /\ botStatus = "disconnected"
    /\ PendingInitTimers(initTimers) = 0

\* C12: when initWhatsApp fails in its try block before the socket is
\* installed, the catch block sets botStatus to 'disconnected', clears
\* isConnecting and schedules exactly one retry of initWhatsApp, 15 s later;
\* no socket is made or installed and nothing else changes (the failure
\* stays inside the call).
C12_InitFailureSchedulesOneRetry ==
    [][initWhatsAppCatch =>
          /\ botStatus' = "disconnected"
          /\ isConnecting' = FALSE
          /\ initTimers' = [initTimers EXCEPT ![15000] = @ + 1]
          /\ initsInFlight' = initsInFlight - 1
          /\ UNCHANGED <<sockets, activeSocket, registryVars, clockVars, currentQR,
                         qrImageDataUrl, autoActivationAttempts, connectionStartTime,
                         delivered, qrRenders, purges, credentials>>
      ]_vars

\* the first attempt has failed: no socket, one retry pending after 15 s
C12_Witness ==
    /\ sockets = <<>>
    /\ initsInFlight = 0
    /\ botStatus = "disconnected"
    /\ ~isConnecting
    /\ initTimers = Schedule(NoTimers, 15000)

\* C13: an 'open' update sets botStatus to 'online', resets
\* autoActivationAttempts to 0 and clears isConnecting, whatever the status,
\* the counter and the flag were before it.
C13_OpenResetsStatus ==
    [][OpenUpdate =>
          /\ botStatus' = "online"
          /\ autoActivationAttempts' = 0
          /\ isConnecting' = FALSE
      ]_vars

\* online after QR payloads had been counted: the counter is back at 0
C13_Witness ==
    /\ botStatus = "online"
    /\ ~isConnecting
    /\ autoActivationAttempts = 0
    /\ currentQR # Null

\* C14: every QR payload received while connecting is stored as currentQR
\* (replacing the one before), sets botStatus to 'qr_ready' and adds exactly
\* one to autoActivationAttempts; this is also so when the counter has
\* reached MAX_QR_ATTEMPTS or is beyond it.
C14_QrStoredAndCounted ==
    [][\A sid \in 1..Len(sockets) :
          OnQr(sid) =>
             /\ currentQR' = QrPayload(sid)
             /\ currentQR' # currentQR
             /\ botStatus' = "qr_ready"
             /\ autoActivationAttempts' = autoActivationAttempts + 1
      ]_vars

\* the counter is beyond the maximum and the payload stored is that of the
\* last update
C14_Witness ==
    /\ autoActivationAttempts > CONFIG_MAX_QR_ATTEMPTS
    /\ currentQR = delivered
    /\ botStatus = "qr_ready"
    /\ isConnecting

\* C15: POST /generate-code with no phone number, or with one that
\* validateAndFormatPhoneNumber rejects, answers HTTP 400 with success: false
\* and creates no record: the registry, lastGeneratedCode,
\* lastGeneratedDisplayCode and the expiry timers are unchanged.
C15_RejectedRequestCreatesNothing ==
    /\ [](\A phoneNumber \in PhoneInputs :
             (phoneNumber = <<>> \/ ~validateAndFormatPhoneNumber(phoneNumber).isValid) =>
                 /\ PostGenerateCodeResponse(phoneNumber, <<>>).http = 400
                 /\ ~PostGenerateCodeResponse(phoneNumber, <<>>).success)
    /\ [][\A phoneNumber \in PhoneInputs :
             (/\ phoneNumber = <<>> \/ ~validateAndFormatPhoneNumber(phoneNumber).isValid
              /\ PostGenerateCode(phoneNumber, <<>>, 0)) =>
                 UNCHANGED <<pairingCodes, heap, issued, expiryTimers, lastGeneratedCode,
                             lastGeneratedDisplayCode>>
         ]_vars

\* a registry with a record and its timer, where the three bad request
\* bodies are answered 400
C15_Witness ==
    /\ issued > 0
    /\ pairingCodes # <<>>
    /\ expiryTimers # {}
    /\ Cardinality({p \in PhoneInputs : ~Accepted(p)}) = 3
    /\ \A p \in {q \in PhoneInputs : ~Accepted(q)} :
           PostGenerateCodeResponse(p, <<>>).http = 400

\* C16: POST /verify-code with a code that is not a key of the registry,
\* neither as sent nor without dashes and upper-cased (never issued, or
\* removed by the timer, the sweep or the eviction), answers HTTP 200 with
\* success: false and 'Invalid pairing code', and leaves the registry as it is.
C16_UnknownCodeIsInvalidNotAnError ==
    /\ [](\A code \in VerifyInputs :
             (/\ code # <<>>
              /\ ~MapHas(pairingCodes, ToUpperCase(RemoveDashes(code)))
              /\ ~MapHas(pairingCodes, code)) =>
                 LET res == PostVerifyCodeResponse(code)
                 IN  /\ res.http = 200
                     /\ ~res.success
                     /\ res.message = "Invalid pairing code")
    /\ [][PostVerifyCode =>
             UNCHANGED <<pairingCodes, heap, issued, expiryTimers, lastGeneratedCode,
                         lastGeneratedDisplayCode>>
         ]_vars

\* a code that was issued and is gone before its timer has run is answered
\* as invalid, in every form
C16_Witness ==
    \E t \in expiryTimers :
        /\ ~MapHas(pairingCodes, t.code)
        /\ ~MapHas(pairingCodes, t.displayCode)
        /\ \A f \in FormsOf(t.code) :
               PostVerifyCodeResponse(f).message = "Invalid pairing code"

\* C17: whenever POST /getqr answers success: true, botStatus is 'qr_ready'
\* and the qrImage it returns is the rendering of the payload stored as
\* currentQR, under every interleaving of QR updates, renderings and requests.
C17_GetQrReturnsImageOfCurrentQR ==
    PostGetQrResponse.success =>
        /\ botStatus = "qr_ready"
        /\ PostGetQrResponse.qrImage = QRCodeToDataURL(currentQR)

\* C18: the handlers of GET /, GET /status, GET /health, GET /admin/codes,
\* POST /getqr, POST /verify-code and POST /generate-code leave botStatus,
\* isConnecting, currentQR, qrImageDataUrl and autoActivationAttempts
\* unchanged, and all of them except POST /generate-code leave the registry
\* unchanged as well.
C18_HandlersLeaveConnectionStateAlone ==
    /\ [][(GetRootRequest \/ GetStatusRequest \/ GetHealthRequest \/ GetAdminCodesRequest
            \/ GetQrRequest \/ VerifyCodeRequest
            \/ BriefGenerateCodeRequest \/ GenerateCodeRejected) =>
              UNCHANGED <<botStatus, isConnecting, currentQR, qrImageDataUrl,
                          autoActivationAttempts>>]_vars
    /\ [][(GetRootRequest \/ GetStatusRequest \/ GetHealthRequest \/ GetAdminCodesRequest
            \/ GetQrRequest \/ VerifyCodeRequest) =>
              UNCHANGED <<pairingCodes, heap>>]_vars

\* a code has been issued while a QR image is on offer: every handler has
\* connection state and a registry it could have disturbed
C18_Witness ==
    /\ MapSize(pairingCodes) > 0
    /\ botStatus = "qr_ready"
    /\ isConnecting
    /\ currentQR # Null
    /\ autoActivationAttempts > 0
    /\ PostGetQrResponse.success
    /\ GetStatusResponse.qrReady
    /\ GetAdminCodesResponse.count = MapSize(pairingCodes)

\* C19: every code generateAlphanumericCode returns has exactly 8 characters,
\* all of them from 'ABCDEFGHJKLMNPQRSTUVWXYZ23456789', at least 2 of them
\* letters and at least 2 of them digits: for every sequence of draws, and
\* for the code of every record the registry holds.
IsGeneratedCodeShape(code) ==
    /\ Len(code) = 8
    /\ \A i \in 1..Len(code) : \E j \in 1..Len(chars) : code[i] = chars[j]
    /\ CountIn(code, UpperSet) >= 2
    /\ CountIn(code, Digits) >= 2

C19_GeneratedCodeShape ==
    /\ \A ds \in DrawSeqs : IsGeneratedCodeShape(generateAlphanumericCode(ds))
    /\ \A i \in 1..Len(pairingCodes) :
           IsGeneratedCodeShape(heap[pairingCodes[i].ref].code)

\* a code is registered that the generator returns after a rejected attempt
C19_Witness ==
    \E ds \in DrawSeqs :
        /\ Len(ds) = 2
        /\ TooFewOfAClass(CodeOfDraw(ds[1]))
        /\ CountIn(CodeOfDraw(ds[1]), Digits) = 1
        /\ MapHas(pairingCodes, generateAlphanumericCode(ds))
        /\ heap[MapGet(pairingCodes, generateAlphanumericCode(ds))].code = generateAlphanumericCode(ds)

\* C20: for every code c the generator returns, formatting c with
\* formatDisplayCode and then normalising the result as the lookup does
\* (every '-' removed, then upper-cased) gives c back: for every sequence of
\* draws, and for the display code of every record the registry holds.
C20_DisplayCodeRoundTrip ==
    /\ \A ds \in DrawSeqs :
           LET c == generateAlphanumericCode(ds)
           IN  ToUpperCase(RemoveDashes(formatDisplayCode(c))) = c
    /\ \A i \in 1..Len(pairingCodes) :
           LET data == heap[pairingCodes[i].ref]
           IN  ToUpperCase(RemoveDashes(data.displayCode)) = data.code

\* a record is registered under a display code that differs from its code
\* and that the normalisation takes back to the code
C20_Witness ==
    \E i \in 1..Len(pairingCodes) :
        LET data == heap[pairingCodes[i].ref]
        IN  /\ pairingCodes[i].key = data.displayCode
            /\ data.displayCode # data.code
            /\ Len(data.displayCode) = 9
            /\ ToUpperCase(RemoveDashes(pairingCodes[i].key)) = data.code
            /\ MapHas(pairingCodes, data.code)

\* the record made by the r-th issue is in the registry
InRegistry(r) == r \in Live(pairingCodes)

C22_LateTimerOrSweepIsNoOp ==
    /\ \A t \in expiryTimers :
           t.swept => ExpiryTimerDeletes(pairingCodes, heap, t) = pairingCodes
    /\ (/\ MapSize(pairingCodes) <= MAX_SESSIONS
        /\ \A i \in 1..Len(pairingCodes) : ~IsExpiredPending(heap, pairingCodes[i], now))
         => cleanupExpiredCodesResult(pairingCodes, heap, now) = pairingCodes

\* C23: in every reachable state the raw key of a record is in the registry
\* if and only if its display key is, and both lead to the same record
\* object: every entry is one of the two keys of its record, and the other
\* key of that record is an entry for the same object.
C23_BothKeysOrNone ==
    \A i \in 1..Len(pairingCodes) :
        LET key == pairingCodes[i].key
            ref == pairingCodes[i].ref
            data == heap[ref]
        IN  /\ key \in {data.code, data.displayCode}
            /\ data.code # data.displayCode
            /\ MapHas(pairingCodes, data.code)
            /\ MapHas(pairingCodes, data.displayCode)
            /\ MapGet(pairingCodes, data.code) = ref
            /\ MapGet(pairingCodes, data.displayCode) = ref

\* one record is left under both of its keys after the sweep removed
\* another record, with both of its keys, before that record's timer
C23_Witness ==
    /\ MapSize(pairingCodes) = 2
    /\ pairingCodes[1].ref = pairingCodes[2].ref
    /\ pairingCodes[1].key # pairingCodes[2].key
    /\ \E t \in expiryTimers :
           /\ t.swept
           /\ t.id # pairingCodes[1].ref
           /\ ~MapHas(pairingCodes, t.code)
           /\ ~MapHas(pairingCodes, t.displayCode)

\* C24: at most one connection attempt is in progress at any time: there is
\* never a second execution of initWhatsApp past its isConnecting guard while
\* an earlier one has neither installed its socket nor failed, under every
\* interleaving of 'close' events (also from an earlier socket), reconnect
\* timers and the awaits inside initWhatsApp.
C24_AtMostOneAttemptInProgress == initsInFlight <= 1

\* C25: botStatus is always one of disconnected, connecting, qr_ready,
\* online, and it changes only along disconnected -> connecting,
\* connecting -> qr_ready, connecting or qr_ready -> online, and anything ->
\* disconnected; in particular never from online to connecting or qr_ready.
StatusValues == {"disconnected", "connecting", "qr_ready", "online"}

StatusChanges ==
    {<<"disconnected", "connecting">>, <<"connecting", "qr_ready">>,
     <<"connecting", "online">>, <<"qr_ready", "online">>}
    \cup {<<s, "disconnected">> : s \in StatusValues}

C26_ReconnectNeverGivesUp ==
    /\ [](botStatus = "disconnected" =>
             PendingInitTimers(initTimers) > 0 \/ purges > 0)
    /\ (botStatus = "disconnected") ~> (botStatus = "connecting" /\ initsInFlight > 0)

\* an attempt has failed after an earlier socket closed: the second
\* 'disconnected' in a row has its retry pending
C26_Witness ==
    /\ botStatus = "disconnected"
    /\ \E sid \in 1..Len(sockets) : sockets[sid] = "closed"
    /\ activeSocket # Null
    /\ sockets[activeSocket] = "closed"
    /\ initTimers = Schedule(NoTimers, 15000)
    /\ initsInFlight = 0

\* C27: a run of cleanupExpiredCodes on a registry that stays within its cap
\* (no capacity eviction applies) removes exactly the entries of the records
\* that are 'pending' with expiresAt earlier than now; every entry of a
\* 'linked' record and of an unexpired pending record stays, in its place,
\* leading to the same, unmodified record.
C27_SweepRemovesExactlyExpiredPending ==
    [][cleanupExpiredCodes =>
          LET Gone(i) == /\ heap[pairingCodes[i].ref].status = "pending"
                         /\ heap[pairingCodes[i].ref].expiresAt < now
              kept == {i \in 1..Len(pairingCodes) : ~Gone(i)}
          IN  Cardinality(kept) <= MAX_SESSIONS =>
                 /\ Len(pairingCodes') = Cardinality(kept)
                 /\ \A i \in 1..Len(pairingCodes) :
                       IF Gone(i)
                       THEN ~MapHas(pairingCodes', pairingCodes[i].key)
                       ELSE /\ MapGet(pairingCodes', pairingCodes[i].key) = pairingCodes[i].ref
                            /\ heap'[pairingCodes[i].ref] = heap[pairingCodes[i].ref]
                 /\ \A i, j \in kept :
                       i < j => \E k, l \in 1..Len(pairingCodes') :
                                   /\ k < l
                                   /\ pairingCodes'[k] = pairingCodes[i]
                                   /\ pairingCodes'[l] = pairingCodes[j]
      ]_vars

\* the sweep has just run over a linked record whose expiresAt has passed and
\* whose timer is still to fire: the record is in place under both keys
C27_Witness ==
    /\ nextSweep = now + CLEANUP_INTERVAL_TICKS
    /\ MapSize(pairingCodes) = 2
    /\ \E t \in expiryTimers :
           /\ t.due <= now
           /\ InRegistry(t.id)
           /\ heap[t.id].status = "linked"
           /\ heap[t.id].expiresAt < now
           /\ MapGet(pairingCodes, t.code) = t.id
           /\ MapGet(pairingCodes, t.displayCode) = t.id

\* C28: linkedAt is set at most once per record.  In every state a record
\* has a linkedAt that is not null if and only if its status is 'linked';
\* and in every step a linked record that stays in the registry stays linked
\* and keeps its linkedAt, whatever 'open' updates arrive later.
C28_LinkedAtSetOnce ==
    [][/\ \A r \in DOMAIN heap : (heap[r].linkedAt # Null) <=> (heap[r].status = "linked")
       /\ \A r \in DOMAIN heap' : (heap'[r].linkedAt # Null) <=> (heap'[r].status = "linked")
       /\ \A r \in DOMAIN heap \cap DOMAIN heap' :
             heap[r].status = "linked" =>
                /\ heap'[r].status = "linked"
                /\ heap'[r].linkedAt = heap[r].linkedAt
      ]_vars

\* a record linked by an earlier 'open' has kept its linkedAt through a later
\* 'open' that linked a record issued after it
C28_Witness ==
    \E r1, r2 \in DOMAIN heap :
        /\ r1 < r2
        /\ heap[r1].status = "linked"
        /\ heap[r2].status = "linked"
        /\ heap[r1].linkedAt < heap[r2].createdAt
        /\ heap[r2].createdAt <= heap[r2].linkedAt
        /\ botStatus = "online"

\* C29: the expiry timer set by one issue only ever deletes the record made
\* by that issue, also when the same code string was issued again in the
\* meantime; so a timer never removes a pending record before that record's
\* own expiresAt.
C29_TimerDeletesOnlyItsOwnRecord ==
    [][ExpiryTimerFires =>
          \A t \in expiryTimers \ expiryTimers' :
              \A r \in Live(pairingCodes) \ Live(pairingCodes') :
                  /\ r = t.id
                  /\ heap[r].expiresAt <= now
      ]_vars

\* C30: capacity eviction in cleanupExpiredCodes removes an unexpired record
\* only when the number of distinct pairing records in the registry exceeds
\* MAX_SESSIONS; with MAX_SESSIONS or fewer distinct records, no record is
\* evicted for capacity (every record that a run removes is pending and
\* expired).
C30_EvictionOnlyAboveCapOfRecords ==
    [][cleanupExpiredCodes =>
          ((\E r \in Live(pairingCodes) \ Live(pairingCodes') :
                ~(heap[r].status = "pending" /\ heap[r].expiresAt < now))
             => Cardinality(Live(pairingCodes)) > MAX_SESSIONS)
      ]_vars

\* C31: in every reachable state the in-flight flag agrees with the status:
\* botStatus 'connecting' implies isConnecting, and botStatus 'online' or
\* 'disconnected' implies that isConnecting is false.
C31_FlagAgreesWithStatus ==
    /\ botStatus = "connecting" => isConnecting
    /\ botStatus \in {"online", "disconnected"} => ~isConnecting

\* a second attempt is in progress after the first socket went online and
\* closed: the flag has been set, cleared and set again
C31_Witness ==
    /\ botStatus = "connecting"
    /\ isConnecting
    /\ initsInFlight = 1
    /\ activeSocket # Null
    /\ sockets[activeSocket] = "closed"
    /\ credentials

\* C32: the counts reported to callers equal the number of distinct pairing
\* records held: the count and the list of GET /admin/codes contain every
\* record exactly once, and the pairingCodes value of GET /status is the
\* number of records.
C32_CountsAreNumbersOfRecords ==
    LET admin == GetAdminCodesResponse
        records == Live(pairingCodes)
    IN  /\ admin.count = Cardinality(records)
        /\ Len(admin.codes) = Cardinality(records)
        /\ \A r \in records :
              Cardinality({i \in 1..Len(admin.codes) :
                              admin.codes[i].displayCode = heap[r].displayCode}) = 1
        /\ GetStatusResponse.pairingCodes = Cardinality(records)

\* C33: connection failures only touch the connection state.  Handling a
\* 'close' update (its purge included), a QR update (its rendering included)
\* or a failure of initWhatsApp leaves the registry as it is: its keys and
\* every field of every record; and a step in which the status of a record
\* changes is the handling of an 'open' update.
C33_FailuresLeaveRegistryAlone ==
    /\ [][(CloseUpdate \/ PurgeEnds \/ QrUpdate \/ QrRenderResolves \/ QrRenderRejects
            \/ initWhatsAppCatch) =>
              UNCHANGED <<pairingCodes, heap>>]_vars
    /\ [][(\E r \in DOMAIN heap \cap DOMAIN heap' : heap'[r].status # heap[r].status) =>
              OpenUpdate]_vars

\* a linked record is in the registry after a QR code was shown, the socket
\* went online and closed, and the next attempt failed
C33_Witness ==
    /\ \E r \in Live(pairingCodes) : heap[r].status = "linked"
    /\ currentQR # Null
    /\ activeSocket # Null
    /\ sockets[activeSocket] = "closed"
    /\ botStatus = "disconnected"
    /\ initTimers = Schedule(NoTimers, 15000)

\* C34: once the SIGINT handler has started, the 'close' update caused by
\* ending the active socket does not lead to a new connection attempt: while
\* the process is shutting down, the step that closes the socket the handler
\* ended adds no reconnect timer and begins no purge that ends by adding one.
C34_NoReconnectAfterSigint ==
    [][(/\ process = "shutting_down"
        /\ \E sid \in 1..Len(sockets) :
               sockets[sid] = "ending" /\ sockets'[sid] = "closed") =>
          /\ PendingInitTimers(initTimers') <= PendingInitTimers(initTimers)
          /\ purges' <= purges
      ]_vars

====
